---- MODULE Spec2Model ----
(***************************************************************************)
(* Code2MCP pipeline orchestration: the stage graph of src/src/workflow.py *)
(* with the seven stage nodes of src/src/nodes and the routing functions   *)
(* that run after each of them.  WorkflowState is the dict threaded        *)
(* through the stages; each key the routing reads is one variable.         *)
(* The graph is compiled without a checkpointer, so a stage and the        *)
(* routing function after it work on the same dict object: what a routing  *)
(* function writes into the state is seen by the next stage.               *)
(***************************************************************************)
EXTENDS Integers, Naturals, Sequences, FiniteSets, TLC

\* ---------------------------------------------------------------- bounds
\* nodes_executed records the first MaxTrace stage executions only.
MaxTrace == 9
\* the longest file content, in blocks
MaxBlocks == 2
\* the longest command list handed to _execute_commands_in_env
MaxCommands == 2
MaxFiles == 2

\* ----------------------------------------------------- program constants
MAX_GENERATION_RETRIES == 5
max_fix_retries == 10
ReviewFixCap == 5
\* confidences are tenths: 0.3 is 3, the default 0.5 is 5
ConfidenceFloor == 3
DefaultConfidence == 5
\* number of stage nodes in the graph (the constant of the termination bound)
StageCount == 7
\* out[-1000:], err[-1000:]
TailLimit == 1000

END == "END"
\* an exception raised by a stage has left the graph (app.ainvoke raises)
FAULT == "FAULT"
StageNames == {"download", "analysis", "env", "generate", "run", "review", "finalize"}

VARIABLES
    node,                    \* stage being executed / routed from, or END
    phase,                   \* "node": the stage is about to run; "repair": Review has diagnosed
                             \* and is about to attempt the fix; "route": routing function is next
    repo_url,                \* TRUE when repository.url is a non-empty string
    llm_available,           \* FALSE when get_llm_service() raises (no API key / client)
    conda_exe,               \* TRUE when run_node finds an interpreter or conda binary for a conda env
    status,
    workflow_status,
    errors,                  \* state["errors"]
    warnings,                \* len(state["warnings"])
    local_paths,             \* TRUE once repository.local_paths is set
    source_dir,              \* workspace/<repo>/source: "absent", "stale" (no .git inside),
                             \* "empty", "partial" or "populated"
    clone_outcome,           \* history: how Download's clone went, "none" before it
    env,                     \* state["env"]["type"] or "absent"
    plugin,                  \* TRUE once state["plugin"] is set
    retry_reasons,           \* len(state["retry_reasons"])
    tests_plugin,            \* state["tests"]["plugin"]["passed"]: "absent", "passed", "failed"
    run_result,              \* state["run_result"]
    previous_run_results,    \* len(state["previous_run_results"])
    error_analysis,          \* state["error_analysis"]
    fix_applied,             \* state.get("fix_applied")
    loop_summary,            \* state["loop_summary"]: its task and fixes fields
    fix_retry_count,         \* state.get("fix_retry_count", 0)
    generation_retry_count,
    service_reply,           \* what the generation service answers to the diagnosis prompt
    nodes_executed,          \* history: stages executed, in order
    stage_count,             \* history: number of stage executions
    fix_attempts,            \* history: calls of _apply_incremental_fixes
    fixes_applied,           \* history: calls of _apply_incremental_fixes that returned True
    run_passes,              \* history: executions that passed
    last_fix_retry_count,    \* history: fix_retry_count when the last Review started
    result,                  \* what run_workflow returned, once it has
    exit_status,             \* the exit status of the top-level command, once it has exited
    executions,              \* two executions of the generated service, as run_node classifies them
    runner,                  \* one call of a stage's process runner
    disk,                    \* the files one write touches: path -> file
    writer,                  \* the write in progress: write_file or _fix_error_with_llm
    provision,               \* one choice of the environment by env_node
    stored,                  \* what run_node and route_after_run keep of one execution's output
    registry,                \* the conda environments on the host and the runs using them
    routed,                  \* one command list executed for an environment
    call,                    \* one use of the generation service by Generate or by the direct fix
    inference,               \* one search for the file a direct fix should rewrite
    checkout                 \* the source tree of a repository over two runs of Download

vars == <<node, phase, repo_url, llm_available, conda_exe, status, workflow_status, errors, warnings,
          local_paths, env, plugin, retry_reasons, tests_plugin, run_result,
          previous_run_results, error_analysis, fix_applied, loop_summary,
          fix_retry_count, generation_retry_count, service_reply, nodes_executed,
          stage_count, fix_attempts, fixes_applied, run_passes, last_fix_retry_count,
          result, exit_status, source_dir, clone_outcome, executions, runner, disk, writer, provision,
          stored, registry, routed, call, inference, checkout>>

\* ------------------------------------------------------------ data shapes
\* an entry of state["errors"]; import_text says whether its message contains
\* "No module named" or "ImportError"
ErrorRecord(n, t, sev, act) ==
    [node |-> n, type |-> t, severity |-> sev, action_taken |-> act, import_text |-> FALSE]
RunErrorRecord(t, act, kind) ==
    [node |-> "RunNode", type |-> t, severity |-> "high", action_taken |-> act,
     import_text |-> (kind = "ImportError")]

\* state.setdefault("errors", []).append(record)
AppendErrorReplacing(errs, e) == <<e>>
AppendError(errs, e) == Append(errs, e)

NoRunResult == [present |-> FALSE, success |-> FALSE, error_type |-> "none"]
RunResult(ok, kind) == [present |-> TRUE, success |-> ok, error_type |-> kind]

\* error_analysis: absent key, the empty dict, the state dict itself
\* (what _intelligent_error_analysis returns for a failed run), or a
\* diagnosis object parsed from the service's reply
NoAnalysis == [kind |-> "absent", next_action |-> "none", confidence |-> DefaultConfidence]
EmptyDiagnosis == [kind |-> "empty", next_action |-> "none", confidence |-> DefaultConfidence]
StateAlias == [kind |-> "state", next_action |-> "none", confidence |-> DefaultConfidence]
Diagnosis(a, c) == [kind |-> "diag", next_action |-> a, confidence |-> c]

NextActions == {"fix_directly", "environment_fix"}
Confidences == {2, 8}
ServiceReplies == {Diagnosis(a, c) : a \in NextActions, c \in Confidences} \cup {EmptyDiagnosis}

\* the dict run_workflow returns: its success flag and whether its "state"
\* entry is the final WorkflowState or None
NoResult == [returned |-> FALSE, success |-> FALSE, state |-> "none"]
WorkflowResult(ok, st) == [returned |-> TRUE, success |-> ok, state |-> st]

\* the process exit status of main.py
Running == [exited |-> FALSE, code |-> 0]
Exited(c) == [exited |-> TRUE, code |-> c]

\* captured output: the sequence of the lines of a text that matter to the
\* substring tests, the empty text being the empty sequence
Markers == {"No module named", "ImportError", "SyntaxError", "Traceback"}
Texts == {<< >>, <<"Traceback">>, <<"No module named">>, <<"SyntaxError">>,
          <<"SyntaxError", "ImportError">>}
UnknownRuntimeError == <<"Unknown runtime error">>
\* Python's `marker in text`
Contains(marker, text) == \E i \in DOMAIN text : text[i] = marker
\* Python's `a or b` on strings
OrElse(a, b) == IF a # << >> THEN a ELSE b

ExecutionIds == {"a", "b"}
ExitCodes == {0, 1, 2}
NoExecution == [started |-> FALSE, done |-> FALSE, code |-> 0, env_type |-> "none",
                prior |-> "none", out |-> << >>, err |-> << >>, error_type |-> "none"]

\* the three _run functions and _run_with_env
Runners == {"download_node._run", "env_node._run", "env_node._run_with_env", "run_node._run"}
\* what subprocess.run can raise: the command cannot be spawned, or it does
\* not end within the timeout
SpawnFaults == {"FileNotFoundError", "PermissionError", "TimeoutExpired"}
\* str(e): the text of the exception
FaultText(exc) == <<exc>>
Completed(code, out, err) == [kind |-> "completed", code |-> code, out |-> out, err |-> err,
                              exc |-> "none"]
Raised(exc) == [kind |-> "raised", code |-> 0, out |-> << >>, err |-> << >>, exc |-> exc]
SubprocessOutcomes ==
    {Completed(c, o, e) : c \in ExitCodes, o \in Texts, e \in Texts}
        \cup {Raised(x) : x \in SpawnFaults}
NoOutcome == Raised("none")
\* what the runner hands to its caller: a (code, out, err) tuple, or the
\* exception if it lets one through
Returned(code, out, err) == [raises |-> FALSE, code |-> code, out |-> out, err |-> err]
Propagated(exc) == [raises |-> TRUE, code |-> 0, out |-> << >>, err |-> FaultText(exc)]
NoReturn == Returned(0, << >>, << >>)
NoCall == [pc |-> "idle", fn |-> "none", outcome |-> NoOutcome, ret |-> NoReturn]

\* a file's content is the sequence of the blocks that have reached the disk
Blocks == {"x", "y"}
Contents == UNION {[1..n -> Blocks] : n \in 1..MaxBlocks}
Absent == [exists |-> FALSE, data |-> << >>]
File(data) == [exists |-> TRUE, data |-> data]
\* full_path (the file being replaced or the audit file) and the temporary
\* file NamedTemporaryFile creates next to it
Paths == {"full_path", "tmpname"}
WriteOps == {"write_file", "_fix_error_with_llm"}
NoWriter == [op |-> "none", pc |-> "idle", old |-> Absent, new |-> << >>, written |-> 0,
             killed |-> FALSE]

\* the env dict: Python's None, the conda and venv environments and the
\* "none" environment env_node falls back to
NoEnv == [type |-> "None", exec_prefix |-> << >>, files |-> {}]
CondaEnv(files) == [type |-> "conda", exec_prefix |-> << >>, files |-> files]
VenvEnv(files) == [type |-> "venv", exec_prefix |-> <<"venv_py">>, files |-> files]
NoneEnv == [type |-> "none", exec_prefix |-> << >>, files |-> {}]
\* what the host and the repository are like and how each command ends:
\* the three ways to find conda, the declared dependency files that exist,
\* the exit codes, and whether repair commands are proposed after a failed
\* install and how the retried install ends
Repairs == {"none", "retry_ok", "retry_fail"}
InstallCodes == {0, 1}
NoFacts == [on_path |-> FALSE, well_known |-> FALSE, conda_exe_set |-> FALSE,
            has_environment_yml |-> FALSE, yml_code |-> 0, base_code |-> 0,
            has_pyproject |-> FALSE, pyproject_code |-> 0, dep_code |-> 0, repair |-> "none",
            has_requirements_txt |-> FALSE, pip_code |-> 0,
            nested_pip |-> FALSE, nested_code |-> 0,
            isfile_before |-> FALSE, venv_code |-> 0, isfile_after |-> FALSE]
NoProvision == [pc |-> "idle", facts |-> NoFacts, conda_available |-> FALSE,
                env |-> NoEnv, errors |-> << >>, log |-> << >>]

\* lengths, in characters, of what Execute keeps of one execution
NothingStored == [done |-> FALSE, passed |-> FALSE, out_len |-> 0, err_len |-> 0,
                  error_type |-> "none", stdout |-> 0, stderr |-> 0, error |-> 0,
                  plugin_stdout |-> 0, plugin_stderr |-> 0, smoke_message |-> 0,
                  route_message |-> 0]
NoRegistry == [envs |-> {}, conda_exe |-> FALSE, runs |-> << >>]
\* a text from the generation service or from an exception: where it comes
\* from, whether it is at least 100 characters long, whether it declares a
\* file path ("File path: ..." or a +++ line) and the body it carries: none,
\* fenced (a ``` block) or plain (everything after a first line "File path:"),
\* each a body that ast.parse accepts (ok) or rejects (bad)
Bodies == {"none", "fenced_ok", "fenced_bad", "plain_ok", "plain_bad"}
EmptyText == [origin |-> "none", long |-> FALSE, path |-> FALSE, body |-> "none"]
ErrorText(long) == [origin |-> "exception", long |-> long, path |-> FALSE, body |-> "none"]
ServiceTexts ==
    {t \in [origin : {"service"}, long : BOOLEAN, path : BOOLEAN, body : Bodies] :
        t.body \in {"plain_ok", "plain_bad"} => t.path}
\* one attempt of generate_text: it returns a text, possibly empty, or raises
AttemptOutcomes ==
    {[kind |-> "returned", text |-> t] : t \in ServiceTexts \cup {EmptyText}}
        \cup {[kind |-> "raised", text |-> ErrorText(long)] : long \in BOOLEAN}
\* the content of the file a fix is written to: the request whose body it is
OldContent == [request |-> 0, body |-> "old"]
NewContent(request, body) == [request |-> request, body |-> body]
NoServiceCall == [pc |-> "idle", caller |-> "none", target_path |-> FALSE, is_py |-> FALSE,
                  request |-> 0, attempts |-> << >>, calls |-> << >>, new_text |-> OldContent,
                  file |-> OldContent, written |-> "none", returned |-> "none",
                  error_analysis |-> "none"]
\* what a path found in the error text is: absolute under repo_root (there
\* or not), absolute elsewhere, or relative (there under repo_root or not)
PathKinds == {"abs_under_root_exists", "abs_under_root_missing", "abs_outside",
              "rel_exists", "rel_missing"}
\* the first match of glob(<repo_root>/**/<filename>): none, under mcp_output
\* or elsewhere
GlobMatches == {"none", "in_mcp_output", "elsewhere"}
\* the .py files of mcp_output in os.walk order: for each, whether its
\* content mentions the failing import
WalkedFiles == UNION {[1..n -> BOOLEAN] : n \in 0..MaxFiles}
NoFile == [found |-> FALSE, by |-> "none", index |-> 0]
FoundFile(by, index) == [found |-> TRUE, by |-> by, index |-> index]
NoInference == [pc |-> "idle", py_token |-> FALSE, paths |-> <<"rel_missing", "rel_missing">>,
                glob |-> "none", import_named |-> FALSE, mcp_isdir |-> FALSE,
                files |-> << >>, result |-> NoFile]
\* the top-level entries of the cloned repository
Items == {".git", "README", "setup.py", "src"}
NoCheckout == [pc |-> "idle", run |-> 0, source |-> {}, temp_clone |-> {}, killed |-> FALSE,
               decision |-> "none"]
NothingRouted == [done |-> FALSE, env_type |-> "none", conda_exe |-> FALSE, commands |-> << >>,
                  issued |-> << >>]

NoSummary == [task |-> "none", fixes |-> "none"]
LoopSummary(t, f) == [task |-> t, fixes |-> f]

\* bool(d) for a dict d
Truthy(ea) == ea.kind \in {"state", "diag"}

Record(trace, n) == IF Len(trace) < MaxTrace THEN Append(trace, n) ELSE trace

\* state.get("workflow_status", "running") at the end of a stage: the key is
\* always present, so the current value is kept
KeepReset(ws) == "running"
Keep(ws) == ws

\* ------------------------------------------------------- routing helpers
_route_or_end_unchecked(ws, st, next_node) == next_node
_route_or_end(ws, st, next_node) ==
    IF ws = "failed" \/ st = "failed" THEN END ELSE next_node

should_stop_workflow(ea) ==
    /\ Truthy(ea)
    /\ \/ ea.next_action = "environment_fix"
       \/ ea.confidence < ConfidenceFloor

has_critical_errors(rr, errs) ==
    \/ ~rr.success
    \/ \E i \in 1..Len(errs) :
          errs[i].severity \in {"high", "critical"} \/ errs[i].import_text

should_retry_generation(gen, max_retries, rr, errs) ==
    gen < max_retries /\ has_critical_errors(rr, errs)


\* ---------------------------------------------------------------- Init
\* run_workflow builds the initial state; the repository URL comes from the
\* command line and the service configuration from the process environment
PipelineInit ==
    /\ node = "download"
    /\ phase = "node"
    /\ repo_url \in BOOLEAN
    /\ llm_available \in BOOLEAN
    /\ conda_exe \in BOOLEAN
    /\ status = "running"
    /\ workflow_status = "running"
    /\ errors = << >>
    /\ warnings = 0
    /\ local_paths = FALSE
    /\ source_dir \in {"absent", "stale", "populated"}
    /\ clone_outcome = "none"
    /\ env = "absent"
    /\ plugin = FALSE
    /\ retry_reasons = 0
    /\ tests_plugin = "absent"
    /\ run_result = NoRunResult
    /\ previous_run_results = 0
    /\ error_analysis = NoAnalysis
    /\ fix_applied = FALSE
    /\ loop_summary = NoSummary
    /\ fix_retry_count = 0
    /\ generation_retry_count = 0
    /\ service_reply = EmptyDiagnosis
    /\ nodes_executed = << >>
    /\ stage_count = 0
    /\ fix_attempts = 0
    /\ fixes_applied = 0
    /\ run_passes = 0
    /\ last_fix_retry_count = 0
    /\ result = NoResult
    /\ exit_status = Running

\* the component models below are idle while the pipeline runs
ClassifierIdle == executions = [x \in ExecutionIds |-> NoExecution]
RunnerIdle == runner = NoCall
DiskIdle == disk = [p \in Paths |-> Absent] /\ writer = NoWriter
ProvisionIdle == provision = NoProvision
StoredIdle == stored = NothingStored
RegistryIdle == registry = NoRegistry
RoutedIdle == routed = NothingRouted
CallIdle == call = NoServiceCall
InferenceIdle == inference = NoInference
CheckoutIdle == checkout = NoCheckout

ComponentsIdle ==
    /\ ClassifierIdle
    /\ RunnerIdle
    /\ DiskIdle
    /\ ProvisionIdle
    /\ StoredIdle
    /\ RegistryIdle
    /\ RoutedIdle
    /\ CallIdle
    /\ InferenceIdle
    /\ CheckoutIdle

Init == PipelineInit /\ ComponentsIdle

\* a stage starts: bookkeeping of the history variables
Enter(n) ==
    /\ node = n
    /\ phase = "node"
    /\ phase' = "route"
    /\ node' = node
    /\ nodes_executed' = Record(nodes_executed, n)
    /\ stage_count' = stage_count + 1

\* a routing function runs after stage n and selects next_node
Route(n, next_node) ==
    /\ node = n
    /\ phase = "route"
    /\ node' = next_node
    /\ phase' = "node"
    /\ UNCHANGED <<nodes_executed, stage_count>>

\* what no stage and no routing function writes
Outside == <<result, exit_status>>
Components == <<executions, runner, disk, writer, provision, stored, registry, routed, call,
                inference, checkout>>
EnvFacts == <<repo_url, llm_available, conda_exe, Outside, Components>>
\* everything the pipeline itself reads or writes
PipelineVars == <<node, phase, repo_url, llm_available, conda_exe, Outside, status,
                  workflow_status, errors, warnings, local_paths, source_dir,
                  clone_outcome, env, plugin, retry_reasons, tests_plugin, run_result, previous_run_results,
                  error_analysis, fix_applied, loop_summary, fix_retry_count,
                  generation_retry_count, service_reply, nodes_executed, stage_count,
                  fix_attempts, fixes_applied, run_passes, last_fix_retry_count>>
\* a component model starts from a pipeline that has not started
PipelineIdle ==
    PipelineInit /\ repo_url /\ llm_available /\ conda_exe /\ source_dir = "absent"
ReviewKeys == <<error_analysis, fix_applied, loop_summary, fix_retry_count,
                generation_retry_count, previous_run_results, service_reply,
                fix_attempts, fixes_applied, last_fix_retry_count>>
RunKeys == <<tests_plugin, run_result, run_passes>>
BuildKeys == <<local_paths, source_dir, clone_outcome, env, plugin, retry_reasons>>

\* ------------------------------------------------------------- Download
CloneOutcomes == {"exists", "clone_failed", "move_failed", "cloned"}

\* lines 60-104: the source directory is kept when it holds a clone already;
\* otherwise it is emptied and git clone runs into temp_clone.  A failed clone
\* leaves a warning and a CloneFailed record, a failed move a FileMoveFailed
\* record.
download_clone_unwarned(outcome, errs, warns, src) ==
    CASE outcome = "clone_failed" ->
            [errors |-> AppendError(errs, ErrorRecord("DownloadNode", "CloneFailed", "none", "continue_with_empty")),
             warnings |-> warns, source_dir |-> "empty"]
      [] outcome = "move_failed" ->
            [errors |-> AppendError(errs, ErrorRecord("DownloadNode", "FileMoveFailed", "none", "continue_with_empty")),
             warnings |-> warns, source_dir |-> "partial"]
      [] outcome = "cloned" ->
            [errors |-> errs, warnings |-> warns, source_dir |-> "populated"]
      [] OTHER -> [errors |-> errs, warnings |-> warns, source_dir |-> src]

download_clone(outcome, errs, warns, src) ==
    CASE outcome = "clone_failed" ->
            [errors |-> AppendError(errs, ErrorRecord("DownloadNode", "CloneFailed", "none", "continue_with_empty")),
             warnings |-> warns + 1, source_dir |-> "empty"]
      [] outcome = "move_failed" ->
            [errors |-> AppendError(errs, ErrorRecord("DownloadNode", "FileMoveFailed", "none", "continue_with_empty")),
             warnings |-> warns, source_dir |-> "partial"]
      [] outcome = "cloned" ->
            [errors |-> errs, warnings |-> warns, source_dir |-> "populated"]
      [] OTHER -> [errors |-> errs, warnings |-> warns, source_dir |-> src]

download_node ==
    /\ Enter("download")
    /\ IF ~repo_url
       THEN /\ errors' = AppendError(errors, ErrorRecord("DownloadNode", "InvalidInput", "none", "abort"))
            /\ status' = "failed"
            /\ workflow_status' = "failed"
            /\ UNCHANGED <<warnings, local_paths, source_dir, clone_outcome>>
       ELSE \E outcome \in CloneOutcomes :
            /\ (outcome = "exists") <=> (source_dir = "populated")
            /\ LET done == download_clone(outcome, errors, warnings, source_dir)
               IN  /\ errors' = done.errors
                   /\ warnings' = done.warnings
                   /\ source_dir' = done.source_dir
            /\ clone_outcome' = outcome
            /\ local_paths' = TRUE
            /\ status' = "running"
            /\ workflow_status' = Keep(workflow_status)
    /\ UNCHANGED <<EnvFacts, env, plugin, retry_reasons, RunKeys, ReviewKeys>>

route_after_download ==
    /\ Route("download", _route_or_end(workflow_status, status, "analysis"))
    /\ UNCHANGED <<EnvFacts, status, workflow_status, errors, warnings, BuildKeys, RunKeys, ReviewKeys>>

\* -------------------------------------------------------------- Analyze
analysis_node ==
    /\ Enter("analysis")
    /\ \E isdir \in BOOLEAN, ingest_ok \in BOOLEAN :
        IF ~(repo_url /\ local_paths /\ isdir)
        THEN /\ errors' = AppendError(errors, ErrorRecord("AnalysisNode", "InvalidInput", "none", "abort"))
             /\ status' = "failed"
             /\ workflow_status' = "failed"
             /\ UNCHANGED warnings
        ELSE /\ warnings' = IF ingest_ok THEN warnings ELSE warnings + 1
             /\ status' = "running"
             /\ workflow_status' = Keep(workflow_status)
             /\ UNCHANGED errors
    /\ UNCHANGED <<EnvFacts, BuildKeys, RunKeys, ReviewKeys>>

route_after_analysis ==
    /\ Route("analysis", _route_or_end(workflow_status, status, "env"))
    /\ UNCHANGED <<EnvFacts, status, workflow_status, errors, warnings, BuildKeys, RunKeys, ReviewKeys>>

\* ------------------------------------------------------------ Provision
EnvTypes == {"conda", "venv", "none"}

env_node ==
    /\ Enter("env")
    /\ \E isdir \in BOOLEAN, created \in EnvTypes :
        IF ~(local_paths /\ isdir)
        THEN /\ errors' = AppendError(errors, ErrorRecord("EnvNode", "InvalidInput", "none", "abort"))
             /\ status' = "failed"
             /\ workflow_status' = "failed"
             /\ UNCHANGED env
        ELSE /\ errors' = IF created = "none"
                          THEN AppendError(errors, ErrorRecord("EnvNode", "EnvSetupFailed", "none", "continue"))
                          ELSE errors
             /\ env' = created
             /\ status' = "running"
             /\ workflow_status' = Keep(workflow_status)
    /\ UNCHANGED <<EnvFacts, warnings, local_paths, source_dir, clone_outcome, plugin, retry_reasons, RunKeys, ReviewKeys>>

route_after_env ==
    /\ Route("env", _route_or_end(workflow_status, status, "generate"))
    /\ UNCHANGED <<EnvFacts, status, workflow_status, errors, warnings, BuildKeys, RunKeys, ReviewKeys>>

\* ------------------------------------------------------------- Generate
generate_node ==
    /\ Enter("generate")
    /\ retry_reasons' = IF generation_retry_count > 0 THEN retry_reasons + 1 ELSE retry_reasons
    /\ plugin' = TRUE
    /\ status' = "running"
    /\ workflow_status' = Keep(workflow_status)
    /\ UNCHANGED <<EnvFacts, errors, warnings, local_paths, source_dir, clone_outcome, env, RunKeys, ReviewKeys>>

route_after_generate ==
    /\ Route("generate", _route_or_end(workflow_status, status, "run"))
    /\ UNCHANGED <<EnvFacts, status, workflow_status, errors, warnings, BuildKeys, RunKeys, ReviewKeys>>


\* -------------------------------------------------------------- Execute
ErrorKinds == {"ImportError", "SyntaxError", "RuntimeError"}

run_node ==
    /\ Enter("run")
    /\ \E isfile \in BOOLEAN, passed \in BOOLEAN, kind \in ErrorKinds :
        IF ~(local_paths /\ isfile)
        THEN /\ errors' = AppendError(errors, ErrorRecord("RunNode", "InvalidInput", "none", "abort"))
             /\ status' = "failed"
             /\ workflow_status' = "failed"
             /\ UNCHANGED RunKeys
        ELSE LET e1 == IF env = "conda" /\ ~conda_exe
                       THEN AppendError(errors, ErrorRecord("RunNode", "CondaNotFound", "none", "skip_conda_commands"))
                       ELSE errors
             IN  /\ tests_plugin' = IF passed THEN "passed" ELSE "failed"
                 /\ run_result' = IF passed THEN RunResult(TRUE, "none") ELSE RunResult(FALSE, kind)
                 /\ run_passes' = IF passed THEN run_passes + 1 ELSE run_passes
                 /\ errors' = IF passed THEN e1
                              ELSE AppendError(e1, RunErrorRecord("PluginSmokeFailed", "record_only", kind))
                 /\ status' = "running"
                 /\ workflow_status' = Keep(workflow_status)
    /\ UNCHANGED <<EnvFacts, warnings, BuildKeys, ReviewKeys>>

\* route_after_run: where to go and what the errors list is afterwards
route_after_run_silent(ws, st, rr, errs) ==
    IF ws = "failed" \/ st = "failed"
    THEN [next |-> END, errors |-> errs]
    ELSE IF ~rr.success
    THEN [next |-> "review", errors |-> errs]
    ELSE [next |-> _route_or_end(ws, st, "review"), errors |-> errs]

route_after_run_result(ws, st, rr, errs) ==
    IF ws = "failed" \/ st = "failed"
    THEN [next |-> END, errors |-> errs]
    ELSE IF ~rr.success
    THEN [next |-> "review",
          errors |-> AppendError(errs, RunErrorRecord("RuntimeError", "needs_regeneration",
                                                      rr.error_type))]
    ELSE [next |-> _route_or_end(ws, st, "review"), errors |-> errs]

route_after_run ==
    /\ node = "run"
    /\ phase = "route"
    /\ phase' = "node"
    /\ LET r == route_after_run_result(workflow_status, status, run_result, errors)
       IN  /\ node' = r.next
           /\ errors' = r.errors
    /\ UNCHANGED <<EnvFacts, status, workflow_status, warnings, BuildKeys, RunKeys, ReviewKeys,
                   nodes_executed, stage_count>>

\* --------------------------------------------------------------- Review
\* _intelligent_error_analysis(state): what it returns and whether it ran
\* lines 34-37 (fix_retry_count = 0, both status fields failed).  A raising
\* get_llm_service() is caught by the outer handler, which returns {}.
_intelligent_error_analysis(avail, success, reply) ==
    IF ~avail THEN [result |-> EmptyDiagnosis, marks_failed |-> FALSE]
    ELSE IF ~success THEN [result |-> StateAlias, marks_failed |-> TRUE]
    ELSE [result |-> reply, marks_failed |-> FALSE]

\* _apply_incremental_fixes: False when the service cannot be obtained or the
\* run result carries no error text; otherwise the outcome of _fix_error_with_llm
_apply_incremental_fixes(avail, rr, replaced) ==
    avail /\ rr.present /\ replaced

\* review_node up to line 413: the repo_root guard, the success branch, or
\* the diagnosis of a failed run stored into error_analysis
review_node ==
    /\ node = "review"
    /\ phase = "node"
    /\ node' = node
    /\ nodes_executed' = Record(nodes_executed, "review")
    /\ stage_count' = stage_count + 1
    /\ last_fix_retry_count' = fix_retry_count
    /\ \E isdir \in BOOLEAN, reply \in ServiceReplies :
        IF ~(local_paths /\ isdir)
        THEN /\ errors' = AppendError(errors, ErrorRecord("ReviewNode", "InvalidInput", "none", "abort"))
             /\ status' = "failed"
             /\ workflow_status' = "failed"
             /\ phase' = "route"
             /\ UNCHANGED <<error_analysis, loop_summary, fix_retry_count, service_reply>>
        ELSE IF ~run_result.success
        THEN LET ia == _intelligent_error_analysis(llm_available, run_result.success, reply)
             IN  /\ service_reply' = IF llm_available THEN reply ELSE EmptyDiagnosis
                 /\ error_analysis' = ia.result
                 /\ fix_retry_count' = IF ia.marks_failed THEN 0 ELSE fix_retry_count
                 /\ workflow_status' = IF ia.marks_failed THEN "failed" ELSE workflow_status
                 /\ status' = IF ia.marks_failed THEN "failed" ELSE status
                 /\ phase' = "repair"
                 /\ UNCHANGED <<errors, loop_summary>>
        ELSE /\ fix_retry_count' = 0
             /\ loop_summary' = LoopSummary("runtime_ok", "none")
             /\ status' = "running"
             /\ workflow_status' = Keep(workflow_status)
             /\ phase' = "route"
             /\ UNCHANGED <<errors, error_analysis, service_reply>>
    /\ UNCHANGED <<EnvFacts, warnings, BuildKeys, RunKeys, fix_applied, generation_retry_count,
                   previous_run_results, fix_attempts, fixes_applied>>

\* review_node lines 421-497 for a failed run: the direct fix, the retry
\* counter and its cap, and the bookkeeping before returning
review_node_repair ==
    /\ node = "review"
    /\ phase = "repair"
    /\ phase' = "route"
    /\ node' = node
    /\ \E replaced \in BOOLEAN :
        LET fix_success == _apply_incremental_fixes(llm_available, run_result, replaced)
            current_fix_retries == fix_retry_count + 1
        IN  /\ fix_attempts' = fix_attempts + 1
            /\ IF fix_success
               THEN /\ fix_retry_count' = 0
                    /\ fix_applied' = TRUE
                    /\ fixes_applied' = fixes_applied + 1
                    /\ loop_summary' = LoopSummary("runtime_fix", "applied")
                    /\ status' = "running"
                    /\ UNCHANGED <<workflow_status, previous_run_results, run_result>>
               ELSE /\ fix_retry_count' = current_fix_retries
                    /\ UNCHANGED <<fix_applied, fixes_applied>>
                    /\ IF current_fix_retries >= ReviewFixCap
                       THEN /\ workflow_status' = "failed"
                            /\ status' = "failed"
                            /\ UNCHANGED <<loop_summary, previous_run_results, run_result>>
                       ELSE /\ loop_summary' = LoopSummary("runtime_fix", "failed")
                            /\ previous_run_results' =
                                  IF run_result.present THEN previous_run_results + 1
                                  ELSE previous_run_results
                            /\ run_result' = NoRunResult
                            /\ status' = "running"
                            /\ workflow_status' = Keep(workflow_status)
    /\ UNCHANGED <<EnvFacts, errors, warnings, BuildKeys, tests_plugin, run_passes, error_analysis,
                   generation_retry_count, service_reply, last_fix_retry_count,
                   nodes_executed, stage_count>>

\* route_after_review: the node it selects and the keys it rewrites
RouteResult(n, ws, st, ea, fa) ==
    [next |-> n, workflow_status |-> ws, status |-> st, error_analysis |-> ea, fix_applied |-> fa]

route_after_review_unchecked(ws, st, ea, fa, frc, gen, rr, errs) ==
    IF Truthy(ea)
    THEN IF fa /\ st = "running" THEN RouteResult("run", ws, st, NoAnalysis, FALSE)
         ELSE IF frc < max_fix_retries THEN RouteResult("review", ws, st, ea, fa)
         ELSE RouteResult(END, "failed", "failed", ea, fa)
    ELSE RouteResult("finalize", ws, st, ea, fa)

route_after_review_success_loops(ws, st, ea, fa, frc, gen, rr, errs) ==
    IF ws = "failed" \/ st = "failed" THEN RouteResult(END, ws, st, ea, fa)
    ELSE IF should_stop_workflow(ea) THEN RouteResult(END, "failed", "failed", ea, fa)
    ELSE IF Truthy(ea)
    THEN IF fa /\ st = "running" THEN RouteResult("run", ws, st, NoAnalysis, FALSE)
         ELSE IF frc < max_fix_retries THEN RouteResult("review", ws, st, ea, fa)
         ELSE IF should_retry_generation(gen, MAX_GENERATION_RETRIES, rr, errs)
              THEN RouteResult("generate", ws, st, ea, fa)
              ELSE RouteResult(END, "failed", "failed", ea, fa)
    ELSE RouteResult(_route_or_end(ws, st, "review"), ws, st, ea, fa)

route_after_review(ws, st, ea, fa, frc, gen, rr, errs) ==
    IF ws = "failed" \/ st = "failed" THEN RouteResult(END, ws, st, ea, fa)
    ELSE IF should_stop_workflow(ea) THEN RouteResult(END, "failed", "failed", ea, fa)
    ELSE IF Truthy(ea)
    THEN IF fa /\ st = "running" THEN RouteResult("run", ws, st, NoAnalysis, FALSE)
         ELSE IF frc < max_fix_retries THEN RouteResult("review", ws, st, ea, fa)
         ELSE IF should_retry_generation(gen, MAX_GENERATION_RETRIES, rr, errs)
              THEN RouteResult("generate", ws, st, ea, fa)
              ELSE RouteResult(END, "failed", "failed", ea, fa)
    ELSE RouteResult(_route_or_end(ws, st, "finalize"), ws, st, ea, fa)

route_review ==
    /\ node = "review"
    /\ phase = "route"
    /\ phase' = "node"
    /\ LET r == route_after_review(workflow_status, status, error_analysis, fix_applied,
                                   fix_retry_count, generation_retry_count, run_result, errors)
       IN  /\ node' = r.next
           /\ workflow_status' = r.workflow_status
           /\ status' = r.status
           /\ error_analysis' = r.error_analysis
           /\ fix_applied' = r.fix_applied
    /\ UNCHANGED <<EnvFacts, errors, warnings, BuildKeys, RunKeys, loop_summary, fix_retry_count,
                   generation_retry_count, previous_run_results, service_reply, fix_attempts,
                   fixes_applied, last_fix_retry_count, nodes_executed, stage_count>>

\* ------------------------------------------------------------- Finalize
FinalStatusNegated(plugin_ok) == IF plugin_ok THEN "failed" ELSE "success"
FinalStatus(plugin_ok) == IF plugin_ok THEN "success" ELSE "failed"

finalize_node ==
    /\ Enter("finalize")
    /\ status' = FinalStatus(tests_plugin = "passed")
    /\ workflow_status' = FinalStatus(tests_plugin = "passed")
    /\ UNCHANGED <<EnvFacts, errors, warnings, BuildKeys, RunKeys, ReviewKeys>>

route_after_finalize ==
    /\ Route("finalize", END)
    /\ UNCHANGED <<EnvFacts, status, workflow_status, errors, warnings, BuildKeys, RunKeys, ReviewKeys>>

\* ------------------------------------------ classifying a failed execution
\* run_node, lines 147-173: the error_type it stores in run_result, with
\* everything that is in scope at that point as parameters (the exit code, the
\* environment type, the error_type of the run_result of the previous pass and
\* the two captured texts)
error_type_by_exit_code(code, env_type, prior, out, err) ==
    IF code = 0 THEN "none"
    ELSE IF code = 2 THEN "SyntaxError"
    ELSE IF Contains("No module named", OrElse(err, out)) THEN "ImportError"
    ELSE "RuntimeError"

error_type(code, env_type, prior, out, err) ==
    IF code = 0 THEN "none"
    ELSE LET error_message == OrElse(err, OrElse(out, UnknownRuntimeError))
         IN  IF Contains("No module named", error_message) THEN "ImportError"
             ELSE IF Contains("ImportError", error_message) THEN "ImportError"
             ELSE IF Contains("SyntaxError", error_message) THEN "SyntaxError"
             ELSE "RuntimeError"

\* two executions, each with its own exit code, environment, previous pass
\* and captured texts
ClassifyInit ==
    /\ PipelineIdle
    /\ CallIdle
    /\ InferenceIdle
    /\ CheckoutIdle
    /\ StoredIdle
    /\ RegistryIdle
    /\ RoutedIdle
    /\ RunnerIdle
    /\ DiskIdle
    /\ ProvisionIdle
    /\ executions \in [ExecutionIds ->
            {[started |-> TRUE, done |-> FALSE, code |-> c, env_type |-> t, prior |-> p,
              out |-> o, err |-> e, error_type |-> "none"] :
                c \in ExitCodes, t \in {"conda", "venv"}, p \in {"none", "ImportError"},
                o \in Texts, e \in Texts}]

run_node_classify(x) ==
    /\ executions[x].started
    /\ ~executions[x].done
    /\ executions' = [executions EXCEPT
            ![x].done = TRUE,
            ![x].error_type = error_type(executions[x].code, executions[x].env_type,
                                         executions[x].prior, executions[x].out,
                                         executions[x].err)]
    /\ UNCHANGED <<PipelineVars, stored, registry, routed, runner, disk, writer, provision, call, inference, checkout>>

ClassifyNext == \E x \in ExecutionIds : run_node_classify(x)

ClassifySpec == ClassifyInit /\ [][ClassifyNext]_vars

\* ------------------------------------------------------ the process runner
\* _run / _run_with_env: try: subprocess.run(..., timeout=...); return
\* returncode, stdout, stderr; except Exception as e: return 1, "", str(e)
_run_propagates(outcome) ==
    IF outcome.kind = "completed"
    THEN Returned(outcome.code, outcome.out, outcome.err)
    ELSE Propagated(outcome.exc)

_run(outcome) ==
    IF outcome.kind = "completed"
    THEN Returned(outcome.code, outcome.out, outcome.err)
    ELSE Returned(1, << >>, FaultText(outcome.exc))

RunnerInit ==
    /\ PipelineIdle
    /\ CallIdle
    /\ InferenceIdle
    /\ CheckoutIdle
    /\ StoredIdle
    /\ RegistryIdle
    /\ RoutedIdle
    /\ ClassifierIdle
    /\ DiskIdle
    /\ ProvisionIdle
    /\ runner \in {[NoCall EXCEPT !.pc = "called", !.fn = f] : f \in Runners}

\* the external command ends, cannot be spawned or times out
subprocess_run ==
    /\ runner.pc = "called"
    /\ \E o \in SubprocessOutcomes :
        runner' = [runner EXCEPT !.pc = "ran", !.outcome = o]
    /\ UNCHANGED <<PipelineVars, stored, registry, routed, executions, disk, writer, provision, call, inference, checkout>>

\* the runner returns to the stage (or the exception leaves it)
runner_returns ==
    /\ runner.pc = "ran"
    /\ LET ret == _run(runner.outcome)
       IN  runner' = [runner EXCEPT !.pc = IF ret.raises THEN "raised" ELSE "returned",
                                    !.ret = ret]
    /\ UNCHANGED <<PipelineVars, stored, registry, routed, executions, disk, writer, provision, call, inference, checkout>>

\* the calling stage goes on with the tuple it received
stage_continues ==
    /\ runner.pc = "returned"
    /\ runner' = [runner EXCEPT !.pc = "continued"]
    /\ UNCHANGED <<PipelineVars, stored, registry, routed, executions, disk, writer, provision, call, inference, checkout>>

RunnerNext ==
    \/ subprocess_run
    \/ runner_returns
    \/ stage_continues

RunnerSpec == RunnerInit /\ [][RunnerNext]_vars

\* ------------------------------------------------------- writing a file
\* the path the new content is written to: write_file opens file_path itself,
\* _fix_error_with_llm a NamedTemporaryFile in the same directory
write_path_in_place(op) == "full_path"

write_path(op) == IF op = "_fix_error_with_llm" THEN "tmpname" ELSE "full_path"

DiskInit ==
    /\ PipelineIdle
    /\ CallIdle
    /\ InferenceIdle
    /\ CheckoutIdle
    /\ StoredIdle
    /\ RegistryIdle
    /\ RoutedIdle
    /\ ClassifierIdle
    /\ RunnerIdle
    /\ ProvisionIdle
    /\ \E op \in WriteOps, old \in {Absent} \cup {File(c) : c \in Contents}, new \in Contents :
        /\ disk = [p \in Paths |-> IF p = "full_path" THEN old ELSE Absent]
        /\ writer = [op |-> op, pc |-> "makedirs", old |-> old, new |-> new, written |-> 0,
                     killed |-> FALSE]

Alive(pc) == writer.pc = pc /\ ~writer.killed

\* os.makedirs(os.path.dirname(path), exist_ok=True)
makedirs ==
    /\ Alive("makedirs")
    /\ writer' = [writer EXCEPT !.pc = "open"]
    /\ UNCHANGED <<PipelineVars, stored, registry, routed, executions, runner, provision, disk, call, inference, checkout>>

\* open(path, 'w') / NamedTemporaryFile('w', delete=False): the file exists
\* and is empty
open_w ==
    /\ Alive("open")
    /\ disk' = [disk EXCEPT ![write_path(writer.op)] = File(<< >>)]
    /\ writer' = [writer EXCEPT !.pc = "write"]
    /\ UNCHANGED <<PipelineVars, stored, registry, routed, executions, runner, provision, call, inference, checkout>>

\* f.write(content): one more block of the content reaches the file
write_block ==
    /\ Alive("write")
    /\ writer.written < Len(writer.new)
    /\ disk' = [disk EXCEPT ![write_path(writer.op)] =
                    File(Append(@.data, writer.new[writer.written + 1]))]
    /\ writer' = [writer EXCEPT !.written = @ + 1]
    /\ UNCHANGED <<PipelineVars, stored, registry, routed, executions, runner, provision, call, inference, checkout>>

\* the with block ends: write_file is done, _fix_error_with_llm goes on to
\* os.replace
close ==
    /\ Alive("write")
    /\ writer.written = Len(writer.new)
    /\ writer' = [writer EXCEPT !.pc = IF writer.op = "_fix_error_with_llm" THEN "replace" ELSE "done"]
    /\ UNCHANGED <<PipelineVars, stored, registry, routed, executions, runner, provision, disk, call, inference, checkout>>

\* os.replace(tmpname, full_path): atomic; when it raises the temporary file
\* is removed and the fix reports False
os_replace ==
    /\ Alive("replace")
    /\ \E ok \in BOOLEAN :
        IF ok /\ disk["tmpname"].exists
        THEN /\ disk' = [disk EXCEPT !["full_path"] = disk["tmpname"], !["tmpname"] = Absent]
             /\ writer' = [writer EXCEPT !.pc = "done"]
        ELSE /\ disk' = [disk EXCEPT !["tmpname"] = Absent]
             /\ writer' = [writer EXCEPT !.pc = "failed"]
    /\ UNCHANGED <<PipelineVars, stored, registry, routed, executions, runner, provision, call, inference, checkout>>

\* the process is killed: nothing more is written
kill ==
    /\ writer.pc \notin {"idle", "done", "failed"}
    /\ ~writer.killed
    /\ writer' = [writer EXCEPT !.killed = TRUE]
    /\ UNCHANGED <<PipelineVars, stored, registry, routed, executions, runner, provision, disk, call, inference, checkout>>

DiskNext ==
    \/ makedirs
    \/ open_w
    \/ write_block
    \/ close
    \/ os_replace
    \/ kill

DiskSpec == DiskInit /\ [][DiskNext]_vars

\* ------------------------------------------------- choosing the environment
\* one command Provision ran: what it was, the dependency file it was run
\* for ("none" when it is for no declared file) and its exit code
Step(cmd, file, code) == [cmd |-> cmd, file |-> file, code |-> code]

\* _check_conda_available: conda answers --version when called by name, from
\* one of the well-known install paths, or from $CONDA_EXE / $CONDA_PREFIX
_check_conda_available(f) == f.on_path \/ f.well_known \/ f.conda_exe_set

\* _create_conda_env line 411-414: a successful creation from environment.yml
\* returns at once
returns_after_yml_never(f) == FALSE

returns_after_yml(f) == f.has_environment_yml /\ f.yml_code = 0

\* whether an install step is attempted: each is, when its file is declared
\* and found, however the steps before it ended
attempted_if_earlier_ok(present, earlier_codes) == present /\ earlier_codes = {0}

attempted(present, earlier_codes) == present

\* the entry an install step leaves in env_info["files"]: the file when the
\* command, or its retry after repair commands, exited 0
file_entry_declared(file, code, retried, retry_code) == {file}

file_entry(file, code, retried, retry_code) ==
    IF code = 0 \/ (retried /\ retry_code = 0) THEN {file} ELSE {}

RetryCode(f) == IF f.repair = "retry_ok" THEN 0 ELSE 1

\* the install steps after a bare creation: pyproject.toml (editable), then
\* requirements.txt, then the pip entries of environment.yml; in a conda
\* environment a failed install is retried after repair commands and a failed
\* pyproject install is followed by its dependencies one by one
install_steps(kind, f) ==
    LET retried == kind = "conda" /\ f.repair # "none"
        do_py == attempted(f.has_pyproject, {})
        py == IF ~do_py THEN << >>
              ELSE <<Step("pip install -e", "pyproject_toml", f.pyproject_code)>>
                   \o (IF f.pyproject_code # 0 /\ retried
                       THEN <<Step("repair", "none", 0),
                              Step("pip install -e", "pyproject_toml", RetryCode(f))>>
                       ELSE << >>)
                   \o (IF f.pyproject_code # 0 /\ kind = "conda"
                       THEN <<Step("pip install dependency", "none", f.dep_code)>>
                       ELSE << >>)
        do_req == attempted(f.has_requirements_txt, IF do_py THEN {f.pyproject_code} ELSE {0})
        req == IF ~do_req THEN << >>
               ELSE <<Step("pip install -r", "requirements_txt", f.pip_code)>>
                    \o (IF f.pip_code # 0 /\ retried
                        THEN <<Step("repair", "none", 0),
                               Step("pip install -r", "requirements_txt", RetryCode(f))>>
                        ELSE << >>)
        do_nested == attempted(f.nested_pip,
                               (IF do_py THEN {f.pyproject_code} ELSE {0})
                                   \cup (IF do_req THEN {f.pip_code} ELSE {0}))
        nested == IF do_nested THEN <<Step("pip install nested", "none", f.nested_code)>>
                  ELSE << >>
    IN  [log |-> py \o req \o nested,
         files |-> (IF do_py
                    THEN file_entry("pyproject_toml", f.pyproject_code, retried, RetryCode(f))
                    ELSE {})
                   \cup (IF do_req
                         THEN file_entry("requirements_txt", f.pip_code, retried, RetryCode(f))
                         ELSE {})]

\* _create_conda_env: None without $CONDA_EXE; the environment made from
\* environment.yml; or a bare environment with the install steps; None when
\* the bare creation fails
conda_env_steps(f) ==
    IF ~f.conda_exe_set THEN [env |-> NoEnv, log |-> << >>]
    ELSE LET yml == IF f.has_environment_yml
                    THEN <<Step("conda env create -f", "environment_yml", f.yml_code)>>
                    ELSE << >>
             base == <<Step("conda create", "none", f.base_code)>>
             inst == install_steps("conda", f)
         IN  IF returns_after_yml(f)
             THEN [env |-> CondaEnv({"environment_yml"}), log |-> yml]
             ELSE IF f.base_code # 0
             THEN [env |-> NoEnv, log |-> yml \o base]
             ELSE [env |-> CondaEnv(inst.files
                                    \cup (IF f.has_environment_yml /\ f.yml_code = 0
                                          THEN {"environment_yml"} ELSE {})),
                   log |-> yml \o base \o inst.log]

\* _create_venv_env: create the venv unless its interpreter is already there
\* (None when the command fails), then, if the interpreter file exists,
\* upgrade pip, run the install steps and return the venv with the
\* interpreter as exec_prefix; None otherwise
_create_venv_env_unchecked(f) ==
    LET inst == install_steps("venv", f)
    IN  [env |-> VenvEnv(inst.files), log |-> inst.log]

_create_venv_env(f) ==
    LET create == IF f.isfile_before THEN << >>
                  ELSE <<Step("python -m venv", "none", f.venv_code)>>
        inst == install_steps("venv", f)
    IN  IF ~f.isfile_before /\ f.venv_code # 0 THEN [env |-> NoEnv, log |-> create]
        ELSE IF f.isfile_before \/ f.isfile_after
        THEN [env |-> VenvEnv(inst.files),
              log |-> create \o <<Step("pip install -U pip", "none", 0)>> \o inst.log]
        ELSE [env |-> NoEnv, log |-> create]

ProvisionFacts ==
    {f \in [on_path : BOOLEAN, well_known : BOOLEAN, conda_exe_set : BOOLEAN,
            has_environment_yml : BOOLEAN, yml_code : InstallCodes, base_code : InstallCodes,
            has_pyproject : BOOLEAN, pyproject_code : InstallCodes, dep_code : InstallCodes,
            repair : Repairs,
            has_requirements_txt : BOOLEAN, pip_code : InstallCodes,
            nested_pip : BOOLEAN, nested_code : InstallCodes,
            isfile_before : BOOLEAN, venv_code : InstallCodes, isfile_after : BOOLEAN] :
        \* the pip entries are read from environment.yml
        /\ f.nested_pip => f.has_environment_yml
        \* exit codes of commands that are never run are not inputs
        /\ ~f.has_environment_yml => f.yml_code = 0
        /\ ~f.has_pyproject => (f.pyproject_code = 0 /\ f.dep_code = 0)
        /\ f.pyproject_code = 0 => f.dep_code = 0
        /\ ~f.has_requirements_txt => f.pip_code = 0
        /\ ~f.nested_pip => f.nested_code = 0
        /\ f.isfile_before => (f.venv_code = 0 /\ f.isfile_after)}

ProvisionInit ==
    /\ PipelineIdle
    /\ CallIdle
    /\ InferenceIdle
    /\ CheckoutIdle
    /\ StoredIdle
    /\ RegistryIdle
    /\ RoutedIdle
    /\ ClassifierIdle
    /\ RunnerIdle
    /\ DiskIdle
    /\ provision = [NoProvision EXCEPT !.pc = "called"]

\* env_node, lines 586-609
provision_env ==
    /\ provision.pc = "called"
    /\ \E f \in ProvisionFacts :
        LET available == _check_conda_available(f)
            conda == IF available THEN conda_env_steps(f) ELSE [env |-> NoEnv, log |-> << >>]
            venv == IF conda.env # NoEnv THEN [env |-> NoEnv, log |-> << >>]
                    ELSE _create_venv_env(f)
            made == IF conda.env # NoEnv THEN conda.env ELSE venv.env
        IN  provision' = [pc |-> "returned", facts |-> f, conda_available |-> available,
                          env |-> IF made = NoEnv THEN NoneEnv ELSE made,
                          errors |-> IF made = NoEnv
                                     THEN AppendError(provision.errors,
                                            ErrorRecord("EnvNode", "EnvSetupFailed", "none", "continue"))
                                     ELSE provision.errors,
                          log |-> conda.log \o venv.log]
    /\ UNCHANGED <<PipelineVars, stored, registry, routed, executions, runner, disk, writer, call, inference, checkout>>

ProvisionNext == provision_env

ProvisionSpec == ProvisionInit /\ [][ProvisionNext]_vars

\* ------------------------------------------- what Execute keeps of the output
\* lengths of the captured stdout and stderr of the service
OutputLengths == {0, 1, 999, 1000, 1001, 5000}
\* which of the substring tests of lines 162-168 the error message answers
MessageMarkers == {"No module named", "ImportError", "SyntaxError", "other"}
\* len(s[-1000:])
TailLen(len) == IF len > TailLimit THEN TailLimit ELSE len
\* len(err or out or "Unknown runtime error")
error_message_len(out_len, err_len) ==
    IF err_len > 0 THEN err_len ELSE IF out_len > 0 THEN out_len ELSE 21
\* len("Module import failed: "), len("Import error: "), len("Syntax error: "),
\* len("Runtime error: ")
error_prefix_len(marker) ==
    CASE marker = "No module named" -> 22
      [] marker = "ImportError" -> 14
      [] marker = "SyntaxError" -> 14
      [] OTHER -> 15
\* the longest of the prefixes
MaxPrefix == 22

\* run_result["error"] = f"<prefix>{error_message}": the message is not cut
error_len(marker, out_len, err_len) ==
    error_prefix_len(marker) + error_message_len(out_len, err_len)

StoreInit ==
    /\ PipelineIdle
    /\ CallIdle
    /\ InferenceIdle
    /\ CheckoutIdle
    /\ ClassifierIdle
    /\ RunnerIdle
    /\ DiskIdle
    /\ ProvisionIdle
    /\ RegistryIdle
    /\ RoutedIdle
    /\ stored = NothingStored

\* run_node lines 147-173 and 209-216, then route_after_run lines 40-49
run_node_store ==
    /\ ~stored.done
    /\ \E passed \in BOOLEAN, marker \in MessageMarkers, out_len, err_len \in OutputLengths :
        stored' =
            IF passed
            THEN [NothingStored EXCEPT !.done = TRUE, !.passed = TRUE,
                      !.out_len = out_len, !.err_len = err_len,
                      !.stdout = TailLen(out_len), !.stderr = TailLen(err_len),
                      !.plugin_stdout = TailLen(out_len), !.plugin_stderr = TailLen(err_len)]
            ELSE [done |-> TRUE, passed |-> FALSE, out_len |-> out_len, err_len |-> err_len,
                  error_type |-> IF marker \in {"No module named", "ImportError"} THEN "ImportError"
                                 ELSE IF marker = "SyntaxError" THEN "SyntaxError"
                                 ELSE "RuntimeError",
                  stdout |-> TailLen(out_len), stderr |-> TailLen(err_len),
                  error |-> error_len(marker, out_len, err_len),
                  plugin_stdout |-> TailLen(out_len), plugin_stderr |-> TailLen(err_len),
                  smoke_message |-> error_len(marker, out_len, err_len),
                  route_message |-> error_len(marker, out_len, err_len)]
    /\ UNCHANGED <<PipelineVars, executions, runner, disk, writer, provision, registry, routed, call, inference, checkout>>

StoreNext == run_node_store

StoreSpec == StoreInit /\ [][StoreNext]_vars

\* ----------------------------------------- running commands in an environment
\* a command is its list of tokens; the planned and repair commands start
\* with one of these
LeadingTokens == {"pip", "python", "python3", "pytest"}
Commands == {<<t>> : t \in LeadingTokens} \cup {<<t, "arg">> : t \in LeadingTokens}
CommandLists == UNION {[1..n -> Commands] : n \in 1..MaxCommands}

\* the command _execute_commands_in_env hands to _run_with_env for one command
\* of the list: wrapped in `conda run -n <name>` when the conda binary is
\* known, with a leading pip or python (followed by arguments) replaced by
\* the venv interpreter, and as it is otherwise
env_command(env_type, conda_exe_found, cmd) ==
    IF env_type = "conda"
    THEN IF conda_exe_found THEN <<"conda_exe", "run", "-n", "env_name">> \o cmd ELSE cmd
    ELSE IF env_type = "venv"
    THEN IF Len(cmd) >= 2 /\ cmd[1] = "python" THEN <<"venv_py">> \o Tail(cmd)
         ELSE IF cmd[1] = "pip" THEN <<"venv_py", "-m", "pip">> \o Tail(cmd)
         ELSE cmd
    ELSE cmd

_execute_commands_in_env(env_type, conda_exe_found, commands) ==
    [i \in 1..Len(commands) |-> env_command(env_type, conda_exe_found, commands[i])]

\* run_node lines 49-80: the command prefix the service is started with
base_cmd(env_type, conda_exe_found) ==
    IF env_type = "conda"
    THEN IF conda_exe_found
         THEN <<"conda_exe", "run", "-n", "env_name", "--cwd", "repo_root", "python">>
         ELSE <<"python">>
    ELSE IF env_type = "venv" THEN <<"venv_py">>
    ELSE <<"python">>

RouteInit ==
    /\ PipelineIdle
    /\ CallIdle
    /\ InferenceIdle
    /\ CheckoutIdle
    /\ ClassifierIdle
    /\ RunnerIdle
    /\ DiskIdle
    /\ ProvisionIdle
    /\ StoredIdle
    /\ RegistryIdle
    /\ routed = NothingRouted

\* env_node runs the planned or repair commands for the environment
execute_commands ==
    /\ ~routed.done
    /\ \E t \in EnvTypes, found \in BOOLEAN, commands \in CommandLists :
        routed' = [done |-> TRUE, env_type |-> t, conda_exe |-> found, commands |-> commands,
                   issued |-> _execute_commands_in_env(t, found, commands)]
    /\ UNCHANGED <<PipelineVars, executions, runner, disk, writer, provision, stored, registry, call, inference, checkout>>

\* run_node starts the generated service
start_service ==
    /\ ~routed.done
    /\ \E t \in EnvTypes, found \in BOOLEAN :
        routed' = [done |-> TRUE, env_type |-> t, conda_exe |-> found,
                   commands |-> <<<<"python", "start_mcp.py">>>>,
                   issued |-> <<base_cmd(t, found) \o <<"start_mcp.py">>>>]
    /\ UNCHANGED <<PipelineVars, executions, runner, disk, writer, provision, stored, registry, call, inference, checkout>>

RouteNext ==
    \/ execute_commands
    \/ start_service

RouteSpec == RouteInit /\ [][RouteNext]_vars

\* ------------------------------------------- reclaiming old conda environments
\* names are their "_"-separated parts: the repositories a, a_b and c
RepoNames == {<<"a">>, <<"a", "b">>, <<"c">>}
RunIds == {1, 2}
\* the last six digits of the time, one value per run, "t0" for earlier runs
Timestamp(r) == IF r = 1 THEN "t1" ELSE IF r = 2 THEN "t2" ELSE "t0"
\* _env_name: f"{repo_name}_{timestamp}_env"
_env_name(repo_name, timestamp) == repo_name \o <<timestamp, "env">>
\* an environment on the host: its name, the repository it was made for and
\* the run that made it (0: a run that has ended before)
CondaEnvOf(repo_name, r) == [name |-> _env_name(repo_name, Timestamp(r)), repo |-> repo_name, owner |-> r]

\* env_name.startswith(f"{repo_name}_") and env_name.endswith("_env")
name_matches_never(repo_name, env_name) == FALSE

name_matches(repo_name, env_name) ==
    /\ Len(env_name) > Len(repo_name)
    /\ SubSeq(env_name, 1, Len(repo_name)) = repo_name
    /\ Len(env_name) >= 2
    /\ env_name[Len(env_name)] = "env"

RegistryInit ==
    /\ PipelineIdle
    /\ CallIdle
    /\ InferenceIdle
    /\ CheckoutIdle
    /\ ClassifierIdle
    /\ RunnerIdle
    /\ DiskIdle
    /\ ProvisionIdle
    /\ StoredIdle
    /\ RoutedIdle
    /\ \E r1, r2 \in RepoNames, old \in SUBSET RepoNames, found \in BOOLEAN :
        /\ r1 # r2
        /\ registry = [envs |-> {CondaEnvOf(n, 0) : n \in old},
                       conda_exe |-> found,
                       runs |-> [r \in RunIds |->
                                  [repo |-> IF r = 1 THEN r1 ELSE r2, pc |-> "start",
                                   listed |-> FALSE, remove_issued |-> {}, found_before |-> {}]]]

\* _cleanup_old_envs of run r: nothing without CONDA_EXE or when the list
\* command fails; otherwise a remove command for every listed environment
\* whose name matches, each of which may fail
_cleanup_old_envs(r) ==
    /\ registry.runs[r].pc = "start"
    /\ \E list_ok \in BOOLEAN :
        LET me == registry.runs[r]
            matching == {e \in registry.envs : name_matches(me.repo, e.name)}
            issued == IF registry.conda_exe /\ list_ok THEN matching ELSE {}
        IN  \E removed \in SUBSET issued :
                registry' = [registry EXCEPT
                    !.envs = @ \ removed,
                    !.runs[r] = [me EXCEPT !.pc = "cleaned",
                                           !.listed = registry.conda_exe /\ list_ok,
                                           !.remove_issued = {e.name : e \in issued},
                                           !.found_before = {e.name : e \in
                                                {x \in registry.envs : x.repo = me.repo /\ x.owner = 0}}]]
    /\ UNCHANGED <<PipelineVars, executions, runner, disk, writer, provision, stored, routed, call, inference, checkout>>

\* _create_conda_env of run r: without CONDA_EXE no command is issued;
\* otherwise the create command is, and it may fail
_create_conda_env(r) ==
    /\ registry.runs[r].pc = "cleaned"
    /\ \E ok \in BOOLEAN :
        registry' = [registry EXCEPT
            !.envs = IF registry.conda_exe /\ ok
                     THEN @ \cup {CondaEnvOf(registry.runs[r].repo, r)} ELSE @,
            !.runs[r].pc = IF registry.conda_exe THEN "created" ELSE "no_conda"]
    /\ UNCHANGED <<PipelineVars, executions, runner, disk, writer, provision, stored, routed, call, inference, checkout>>

\* the run of r ends
run_ends(r) ==
    /\ registry.runs[r].pc \in {"created", "no_conda"}
    /\ registry' = [registry EXCEPT !.runs[r].pc = "ended"]
    /\ UNCHANGED <<PipelineVars, executions, runner, disk, writer, provision, stored, routed, call, inference, checkout>>

RegistryNext ==
    \E r \in RunIds :
        \/ _cleanup_old_envs(r)
        \/ _create_conda_env(r)
        \/ run_ends(r)

RegistrySpec == RegistryInit /\ [][RegistryNext]_vars

\* ------------------------------------------- using the generation service
\* _retry_generate_text(..., retries=2): at most retries + 1 attempts
retries == 2

\* _retry_generate_text: the first non-empty text an attempt returned; when no
\* attempt returned one, `last`: "" after an attempt that returned nothing,
\* str(e) after an attempt that raised
_retry_generate_text(attempts) ==
    LET good == {i \in DOMAIN attempts :
                    attempts[i].kind = "returned" /\ attempts[i].text # EmptyText}
    IN  IF good # {} THEN attempts[CHOOSE i \in good : \A j \in good : i <= j].text
        ELSE IF attempts[Len(attempts)].kind = "raised" THEN attempts[Len(attempts)].text
        ELSE EmptyText

\* the loop of _retry_generate_text goes on after an attempt
Retrying(attempts) ==
    /\ Len(attempts) < retries + 1
    /\ \A i \in DOMAIN attempts : attempts[i].kind = "raised" \/ attempts[i].text = EmptyText

\* ast.parse(new_text) does not raise
parses_any(body) == TRUE

parses(body) == body \in {"fenced_ok", "plain_ok"}

\* what _fix_error_with_llm returns after os.replace
replace_result_ignored(ok) == TRUE

replace_result(ok) == ok

\* _generate_mcp_service lines 272-276: the built-in template when the text
\* is empty or shorter than 100 characters, the text otherwise
_generate_mcp_service(text) ==
    IF text = EmptyText \/ ~text.long THEN "fallback" ELSE text.origin

CallInit ==
    /\ PipelineIdle
    /\ InferenceIdle
    /\ CheckoutIdle
    /\ ClassifierIdle
    /\ RunnerIdle
    /\ DiskIdle
    /\ ProvisionIdle
    /\ StoredIdle
    /\ RegistryIdle
    /\ RoutedIdle
    /\ \E caller \in {"generate", "review"}, target_path, is_py \in BOOLEAN :
        /\ caller = "generate" => (~target_path /\ is_py)
        /\ call = [NoServiceCall EXCEPT !.pc = "request", !.caller = caller,
                       !.target_path = target_path, !.is_py = is_py, !.request = 1,
                       !.error_analysis = IF caller = "review" THEN "pending" ELSE "none"]

\* one attempt of llm_service.generate_text inside _retry_generate_text
generate_text ==
    /\ call.pc = "request"
    /\ Retrying(call.attempts)
    /\ \E o \in AttemptOutcomes :
        call' = [call EXCEPT !.attempts = Append(@, o)]
    /\ UNCHANGED <<PipelineVars, executions, runner, disk, writer, provision, stored, registry,
                   routed, inference, checkout>>

\* _retry_generate_text returns to its caller
retry_returns ==
    /\ call.pc = "request"
    /\ call.attempts # << >>
    /\ ~Retrying(call.attempts)
    /\ call' = [call EXCEPT !.pc = "response", !.attempts = << >>,
                    !.calls = Append(@, [attempts |-> call.attempts,
                                         response |-> _retry_generate_text(call.attempts)])]
    /\ UNCHANGED <<PipelineVars, executions, runner, disk, writer, provision, stored, registry,
                   routed, inference, checkout>>

\* generate_node writes start_mcp.py / mcp_service.py from what
\* _generate_mcp_service returned
generate_writes ==
    /\ call.pc = "response"
    /\ call.caller = "generate"
    /\ call' = [call EXCEPT !.pc = "done",
                    !.written = _generate_mcp_service(call.calls[1].response)]
    /\ UNCHANGED <<PipelineVars, executions, runner, disk, writer, provision, stored, registry,
                   routed, inference, checkout>>

\* _fix_error_with_llm lines 157-201 after the first response: give up, go on
\* to the write, or ask once more when the body of a .py file does not parse
fix_first_response ==
    /\ call.pc = "response"
    /\ call.caller = "review"
    /\ call.request = 1
    /\ LET response == call.calls[1].response
           file_path == response.path \/ call.target_path
       IN  IF response = EmptyText \/ ~file_path \/ response.body = "none"
           THEN call' = [call EXCEPT !.pc = "returned", !.returned = FALSE]
           ELSE IF call.is_py /\ ~parses(response.body)
           THEN call' = [call EXCEPT !.pc = "request", !.request = 2]
           ELSE call' = [call EXCEPT !.pc = "write", !.new_text = NewContent(1, response.body)]
    /\ UNCHANGED <<PipelineVars, executions, runner, disk, writer, provision, stored, registry,
                   routed, inference, checkout>>

\* lines 185-201: the answer to the repair request is taken only when it
\* carries a fenced body that parses
fix_retry_response ==
    /\ call.pc = "response"
    /\ call.caller = "review"
    /\ call.request = 2
    /\ LET retry_response == call.calls[2].response
       IN  IF /\ retry_response # EmptyText
              /\ retry_response.body \in {"fenced_ok", "fenced_bad"}
              /\ parses(retry_response.body)
           THEN call' = [call EXCEPT !.pc = "write",
                             !.new_text = NewContent(2, retry_response.body)]
           ELSE call' = [call EXCEPT !.pc = "returned", !.returned = FALSE]
    /\ UNCHANGED <<PipelineVars, executions, runner, disk, writer, provision, stored, registry,
                   routed, inference, checkout>>

\* lines 202-219: the temporary file is written and renamed over the file;
\* when the rename raises the file stays as it was
fix_write ==
    /\ call.pc = "write"
    /\ \E ok \in BOOLEAN :
        call' = [call EXCEPT !.pc = "returned",
                     !.file = IF ok THEN call.new_text ELSE @,
                     !.returned = replace_result(ok)]
    /\ UNCHANGED <<PipelineVars, executions, runner, disk, writer, provision, stored, registry,
                   routed, inference, checkout>>

\* review_node lines 424-450 with the result of the fix: the counters and
\* fix_applied are written, state["error_analysis"] is not
review_continues ==
    /\ call.pc = "returned"
    /\ call' = [call EXCEPT !.pc = "done"]
    /\ UNCHANGED <<PipelineVars, executions, runner, disk, writer, provision, stored, registry,
                   routed, inference, checkout>>

CallNext ==
    \/ generate_text
    \/ retry_returns
    \/ generate_writes
    \/ fix_first_response
    \/ fix_retry_response
    \/ fix_write
    \/ review_continues

CallSpec == CallInit /\ [][CallNext]_vars

\* ------------------------------------------------- the downloaded source tree
\* download_node lines 59-104 for one repository, in a first run that may be
\* killed and a second run afterwards.  source and temp_clone are the entries
\* of <repo_root>/source and <repo_root>/temp_clone.
CheckoutInit ==
    /\ PipelineIdle
    /\ CallIdle
    /\ InferenceIdle
    /\ ClassifierIdle
    /\ RunnerIdle
    /\ DiskIdle
    /\ ProvisionIdle
    /\ StoredIdle
    /\ RegistryIdle
    /\ RoutedIdle
    \* the workspace is new, or holds the tree of an earlier complete Download
    /\ \E source \in {{}, Items} :
        checkout = [NoCheckout EXCEPT !.pc = "check", !.run = 1, !.source = source]

\* os.path.exists(source/.git)
already_downloaded(source) == ".git" \in source

\* line 60: the source tree is taken as downloaded, or is to be cloned
check_source ==
    /\ checkout.pc = "check"
    /\ checkout' = IF already_downloaded(checkout.source)
                   THEN [checkout EXCEPT !.pc = "done", !.decision = "exists"]
                   ELSE [checkout EXCEPT !.pc = "clear", !.decision = "clone"]
    /\ UNCHANGED <<PipelineVars, executions, runner, disk, writer, provision, stored, registry,
                   routed, call, inference>>

\* lines 63-69: source is emptied and temp_clone removed
clear_dirs ==
    /\ checkout.pc = "clear"
    /\ checkout' = [checkout EXCEPT !.pc = "clone", !.source = {}, !.temp_clone = {}]
    /\ UNCHANGED <<PipelineVars, executions, runner, disk, writer, provision, stored, registry,
                   routed, call, inference>>

\* line 71: git clone into temp_clone; on failure Download goes on with the
\* empty source directory
git_clone ==
    /\ checkout.pc = "clone"
    /\ \E ok \in BOOLEAN :
        checkout' = IF ok THEN [checkout EXCEPT !.pc = "move", !.temp_clone = Items]
                    ELSE [checkout EXCEPT !.pc = "done"]
    /\ UNCHANGED <<PipelineVars, executions, runner, disk, writer, provision, stored, registry,
                   routed, call, inference>>

\* lines 84-90: the entries are moved one at a time, in the order os.listdir
\* gives them
move_item ==
    /\ checkout.pc = "move"
    /\ \E item \in checkout.temp_clone :
        checkout' = [checkout EXCEPT !.temp_clone = @ \ {item}, !.source = @ \cup {item}]
    /\ UNCHANGED <<PipelineVars, executions, runner, disk, writer, provision, stored, registry,
                   routed, call, inference>>

\* line 92: temp_clone is removed when everything is moved
remove_temp_clone ==
    /\ checkout.pc = "move"
    /\ checkout.temp_clone = {}
    /\ checkout' = [checkout EXCEPT !.pc = "done"]
    /\ UNCHANGED <<PipelineVars, executions, runner, disk, writer, provision, stored, registry,
                   routed, call, inference>>

\* the first run is killed during Download
kill_download ==
    /\ checkout.run = 1
    /\ checkout.pc \in {"check", "clear", "clone", "move"}
    /\ checkout' = [checkout EXCEPT !.pc = "killed", !.killed = TRUE]
    /\ UNCHANGED <<PipelineVars, executions, runner, disk, writer, provision, stored, registry,
                   routed, call, inference>>

\* a later run for the same repository reaches Download
next_run ==
    /\ checkout.run = 1
    /\ checkout.pc \in {"killed", "done"}
    /\ checkout' = [checkout EXCEPT !.pc = "check", !.run = 2, !.decision = "none"]
    /\ UNCHANGED <<PipelineVars, executions, runner, disk, writer, provision, stored, registry,
                   routed, call, inference>>

CheckoutNext ==
    \/ check_source
    \/ clear_dirs
    \/ git_clone
    \/ move_item
    \/ remove_temp_clone
    \/ kill_download
    \/ next_run

CheckoutSpec == CheckoutInit /\ [][CheckoutNext]_vars

\* ------------------------------------------- the file a direct fix rewrites
\* _infer_error_file_path: None when the text has no *.py token; the path a
\* pattern of path_patterns finds when it is absolute under repo_root or
\* relative and existing; the first glob match when it is under mcp_output;
\* the first walked file that mentions the failing import when the text has
\* "cannot import name ... from ... (...)"; None otherwise
_infer_error_file_path(py_token, paths, glob, import_named, mcp_isdir, files) ==
    LET accepted == {i \in DOMAIN paths :
                        paths[i] \in {"abs_under_root_exists", "abs_under_root_missing",
                                      "rel_exists"}}
        mentioning == {i \in DOMAIN files : files[i]}
    IN  IF ~py_token THEN NoFile
        ELSE IF accepted # {}
        THEN FoundFile("text_path", CHOOSE i \in accepted : \A j \in accepted : i <= j)
        ELSE IF glob = "in_mcp_output" THEN FoundFile("glob", 1)
        ELSE IF mcp_isdir /\ import_named /\ mentioning # {}
        THEN FoundFile("walk", CHOOSE i \in mentioning : \A j \in mentioning : i <= j)
        ELSE NoFile

InferenceInit ==
    /\ PipelineIdle
    /\ CallIdle
    /\ CheckoutIdle
    /\ ClassifierIdle
    /\ RunnerIdle
    /\ DiskIdle
    /\ ProvisionIdle
    /\ StoredIdle
    /\ RegistryIdle
    /\ RoutedIdle
    /\ \E py_token, import_named, mcp_isdir \in BOOLEAN, paths \in [1..2 -> PathKinds],
          glob \in GlobMatches, files \in WalkedFiles :
        \* nothing is walked in a directory that is not there
        /\ ~mcp_isdir => (files = << >> /\ glob # "in_mcp_output")
        \* a file the text names by a path that exists is found by the glob too
        /\ (\E i \in 1..2 : paths[i] \in {"abs_under_root_exists", "rel_exists"}) => glob # "none"
        /\ inference = [NoInference EXCEPT !.pc = "called", !.py_token = py_token,
                            !.paths = paths, !.glob = glob, !.import_named = import_named,
                            !.mcp_isdir = mcp_isdir, !.files = files]

\* _fix_error_with_llm line 126: target_path = _infer_error_file_path(...)
infer_target ==
    /\ inference.pc = "called"
    /\ inference' = [inference EXCEPT !.pc = "returned",
                         !.result = _infer_error_file_path(inference.py_token, inference.paths,
                                        inference.glob, inference.import_named,
                                        inference.mcp_isdir, inference.files)]
    /\ UNCHANGED <<PipelineVars, executions, runner, disk, writer, provision, stored, registry,
                   routed, call, checkout>>

InferenceNext == infer_target

InferenceSpec == InferenceInit /\ [][InferenceNext]_vars

\* ----------------------------------------------- faults and the callers
\* A stage raises: each stage has filesystem calls outside any try block
\* (download_node ensure_directory/rmtree/makedirs, analysis_node and env_node
\* os.makedirs, generate_node ensure_directory/write_file, run_node
\* os.makedirs/write_file, review_node ensure_directory, finalize_node
\* os.makedirs in _save_final_reports).  The exception leaves the graph; the
\* state dict the stage was working on is dropped by run_workflow.
stage_raises ==
    /\ node \in StageNames
    /\ phase = "node"
    /\ node' = FAULT
    /\ phase' = "node"
    /\ nodes_executed' = Record(nodes_executed, node)
    /\ stage_count' = stage_count + 1
    /\ UNCHANGED <<EnvFacts, status, workflow_status, errors, warnings, BuildKeys, RunKeys, ReviewKeys>>

\* run_workflow after app.ainvoke: the result dict it returns
run_workflow_result_returned(n, ws) ==
    IF n = FAULT THEN WorkflowResult(FALSE, "none")
    ELSE WorkflowResult(TRUE, "final")

run_workflow_result(n, ws) ==
    IF n = FAULT THEN WorkflowResult(FALSE, "none")
    ELSE WorkflowResult(ws = "success", "final")

run_workflow ==
    /\ node \in {END, FAULT}
    /\ ~result.returned
    /\ result' = run_workflow_result(node, workflow_status)
    /\ UNCHANGED <<node, phase, repo_url, llm_available, conda_exe, exit_status, Components, status,
                   workflow_status, errors, warnings, BuildKeys, RunKeys, ReviewKeys,
                   nodes_executed, stage_count>>

\* main(): both branches on result["success"] return normally, and so does
\* the exception handler, so the interpreter exits with status 0
main_exit_code(ok) == 0

main ==
    /\ result.returned
    /\ ~exit_status.exited
    /\ exit_status' = Exited(main_exit_code(result.success))
    /\ UNCHANGED <<node, phase, repo_url, llm_available, conda_exe, result, Components, status,
                   workflow_status, errors, warnings, BuildKeys, RunKeys, ReviewKeys,
                   nodes_executed, stage_count>>

\* ------------------------------------------------------------ the graph
Next ==
    \/ download_node
    \/ route_after_download
    \/ analysis_node
    \/ route_after_analysis
    \/ env_node
    \/ route_after_env
    \/ generate_node
    \/ route_after_generate
    \/ run_node
    \/ route_after_run
    \/ review_node
    \/ review_node_repair
    \/ route_review
    \/ finalize_node
    \/ route_after_finalize
    \/ stage_raises
    \/ run_workflow
    \/ main

Spec == Init /\ [][Next]_vars

\* stages run strictly one after another and the graph is driven until END
FairSpec == Spec /\ WF_vars(Next)

Terminated == node = END
Faulted == node = FAULT


\* =============================================================== claims
Aborted == \E i \in 1..Len(errors) : errors[i].action_taken = "abort"
HappyPath == <<"download", "analysis", "env", "generate", "run", "review", "finalize">>
TerminationBound == MAX_GENERATION_RETRIES * (max_fix_retries + 1) + StageCount

\* C1: whatever the stage outcomes, the run reaches END (or is ended by a
\* stage's exception), and it never executes more than
\* max_outer * (max_inner + 1) plus a constant (the seven stages of the
\* graph) stage executions on the way.
C1_Termination == [](stage_count <= TerminationBound) /\ <>(Terminated \/ Faulted)

C1_Witness ==
    /\ Terminated
    /\ tests_plugin = "failed"
    /\ fix_attempts = 1
    /\ stage_count = 6

\* C2: once workflow_status is failed it stays failed in every later step.
C2_FailedIsSticky == [][workflow_status = "failed" => workflow_status' = "failed"]_vars

C2_Witness ==
    /\ Terminated
    /\ workflow_status = "failed"
    /\ error_analysis = StateAlias
    /\ loop_summary = LoopSummary("runtime_fix", "failed")

\* C3: when a stage has returned with workflow_status = failed, the routing
\* step selects END, so no further stage executes.
C3_FailedRoutesToEnd ==
    [][(phase = "route" /\ workflow_status = "failed") => (node' = END /\ stage_count' = stage_count)]_vars

C3_Witness ==
    /\ Terminated
    /\ workflow_status = "failed"
    /\ nodes_executed = <<"download", "analysis", "env">>

\* C4 (as claimed): a run in which the execution failed and no direct fix
\* was applied ends with fix_retry_count = max_inner and
\* generation_retry_count = max_outer.
C4_Claim ==
    (Terminated /\ workflow_status = "failed" /\ ~Aborted
        /\ tests_plugin = "failed" /\ run_passes = 0 /\ fixes_applied = 0)
    => (fix_retry_count = max_fix_retries /\ generation_retry_count = MAX_GENERATION_RETRIES)

\* C5: neither retry counter is ever assigned a smaller value than it holds.
C5_CountersMonotonic ==
    [][/\ fix_retry_count' >= fix_retry_count
       /\ generation_retry_count' >= generation_retry_count]_vars

C5_Witness ==
    /\ Terminated
    /\ fix_retry_count = 1
    /\ fix_attempts = 1

\* C6 (as claimed): when Review has replaced a file for a failed execution
\* and marked the record running, the routing after Review clears
\* error_analysis and fix_applied and selects Execute.
C6_Claim ==
    [][(node = "review" /\ phase = "route" /\ tests_plugin = "failed"
            /\ fix_applied /\ status = "running")
        => (node' = "run" /\ error_analysis' = NoAnalysis /\ ~fix_applied')]_vars

\* C7 (as claimed): while the execution keeps failing and direct fixes keep
\* failing, the run does not end before ten direct-fix attempts have failed
\* (after which Review routes to Generate).
C7_Claim ==
    (Terminated /\ ~Aborted /\ tests_plugin = "failed" /\ run_passes = 0
        /\ fixes_applied = 0 /\ generation_retry_count < MAX_GENERATION_RETRIES)
    => fix_attempts >= max_fix_retries

\* C8 (as claimed): when the diagnosis of the failed execution says
\* environment_fix, or has a confidence below the floor, Review makes no
\* direct-fix attempt and leaves fix_retry_count as it was.
C8_Claim ==
    (node = "review" /\ phase = "route" /\ tests_plugin = "failed" /\ llm_available
        /\ error_analysis.kind # "absent" /\ should_stop_workflow(service_reply))
    => (fix_attempts = 0 /\ fix_retry_count = last_fix_retry_count)

\* C9 (as claimed): Review routes to Finalize exactly when the last
\* execution succeeded; after a failed one Finalize is never the successor.
C9_Claim ==
    [][(node = "review" /\ phase = "route" /\ ~Aborted)
        => ((node' = "finalize") <=> (tests_plugin = "passed"))]_vars

\* C10: a run whose generated artifact executed with exit code 0 (and that no
\* stage aborted) ends with workflow_status = success after the stages
\* Download, Analyze, Provision, Generate, Execute, Review, Finalize ran in
\* that order, each exactly once.
C10_HappyPath ==
    (Terminated /\ tests_plugin = "passed" /\ ~Aborted)
    => (workflow_status = "success" /\ nodes_executed = HappyPath /\ stage_count = Len(HappyPath))

C10_Witness ==
    /\ Terminated
    /\ workflow_status = "success"
    /\ errors = << >>
    /\ env = "conda"
    /\ run_passes = 1
    /\ stage_count = 7


\* C14: every step leaves the previous content of errors as a prefix of its
\* new content: records are only appended, never removed, reordered or changed.
C14_ErrorsAppendOnly ==
    [][/\ Len(errors') >= Len(errors)
       /\ SubSeq(errors', 1, Len(errors)) = errors]_vars

C14_Witness ==
    /\ Len(errors) >= 3
    /\ errors[1].type = "CloneFailed"
    /\ errors[Len(errors)].type = "RuntimeError"
    /\ errors[Len(errors)].action_taken = "needs_regeneration"

\* C20 (as claimed): once status is failed, no later step of the run assigns
\* it running or success.
C20_Claim == [][status = "failed" => status' = "failed"]_vars


\* C16 (as claimed): no fault propagates out of a stage: every stage
\* execution returns a WorkflowState to its routing function.
C16_Claim == [][(node \in StageNames /\ phase = "node") => node' = node]_vars

\* C17 (as claimed): whatever happened in the pipeline, the result that
\* run_workflow returns carries the last known WorkflowState.
C17_Claim == result.returned => result.state = "final"

\* C19 (as claimed): the command exits with status 0 exactly when the
\* workflow result is success.
C19_Claim == exit_status.exited => ((exit_status.code = 0) <=> result.success)


\* C13: two failed executions whose captured stdout and stderr are the same
\* texts get the same error_type, whatever their exit codes, environment
\* types and previous passes.
C13_ClassificationByTextAlone ==
    \A x, y \in ExecutionIds :
        (/\ executions[x].done /\ executions[y].done
         /\ executions[x].code # 0 /\ executions[y].code # 0
         /\ executions[x].out = executions[y].out
         /\ executions[x].err = executions[y].err)
        => executions[x].error_type = executions[y].error_type

C13_Witness ==
    /\ executions["a"].done /\ executions["b"].done
    /\ executions["a"].code = 1 /\ executions["b"].code = 2
    /\ executions["a"].env_type # executions["b"].env_type
    /\ executions["a"].prior # executions["b"].prior
    /\ executions["a"].out = executions["b"].out
    /\ executions["a"].err = executions["b"].err
    /\ executions["a"].err = << >>
    /\ executions["a"].out = <<"SyntaxError", "ImportError">>
    /\ executions["a"].error_type = "ImportError"


\* C15: the process runner never lets an exception through; when the command
\* cannot be spawned or times out, the stage receives a non-zero exit code
\* and the failure text as stderr.
C15_RunnerNeverRaises ==
    /\ runner.pc # "raised"
    /\ (runner.pc \in {"returned", "continued"} /\ runner.outcome.kind = "raised")
        => /\ ~runner.ret.raises
           /\ runner.ret.code # 0
           /\ runner.ret.err = FaultText(runner.outcome.exc)
           /\ runner.ret.err # << >>

C15_Witness ==
    /\ runner.pc = "continued"
    /\ runner.fn = "env_node._run_with_env"
    /\ runner.outcome.kind = "raised"
    /\ runner.outcome.exc = "TimeoutExpired"
    /\ runner.ret.code = 1


\* C11: at every point of _fix_error_with_llm, killed or not, the target
\* file is exactly what it was before the call or exactly the complete new
\* content, and until os.replace has succeeded it is what it was before.
C11_AtomicFix ==
    writer.op = "_fix_error_with_llm" =>
        /\ disk["full_path"] \in {writer.old, File(writer.new)}
        /\ writer.pc # "done" => disk["full_path"] = writer.old

C11_Witness ==
    /\ writer.op = "_fix_error_with_llm"
    /\ writer.killed
    /\ writer.pc = "write"
    /\ writer.written = 1
    /\ Len(writer.new) = 2
    /\ disk["tmpname"] = File(<<writer.new[1]>>)
    /\ writer.old.exists
    /\ writer.old.data # writer.new
    /\ disk["full_path"] = writer.old

\* C18 (as claimed): after a kill during write_file the audit file is
\* absent, its previous complete content or its new complete content.
C18_Claim ==
    (writer.op = "write_file" /\ writer.killed) =>
        disk["full_path"] \in {Absent, writer.old, File(writer.new)}


\* C12 (as claimed): with conda absent, whatever the creation and install
\* commands do, env_node ends with a venv environment whose exec_prefix is an
\* interpreter path.
C12_Claim ==
    (provision.pc = "returned" /\ ~provision.conda_available) =>
        /\ provision.env.type = "venv"
        /\ provision.env.exec_prefix # << >>

\* C12 (amended): with conda absent, env_node ends with a venv environment
\* whose exec_prefix is the venv's interpreter when that interpreter exists
\* (it was there already, or the creation command exited 0 and left it),
\* whatever the install commands do; otherwise it ends with the "none"
\* environment, an empty exec_prefix and an EnvSetupFailed record.
C12_Amended ==
    (provision.pc = "returned" /\ ~provision.conda_available) =>
        IF \/ provision.facts.isfile_before
           \/ provision.facts.venv_code = 0 /\ provision.facts.isfile_after
        THEN /\ provision.env.type = "venv"
             /\ provision.env.exec_prefix = <<"venv_py">>
             /\ provision.errors = << >>
        ELSE /\ provision.env = NoneEnv
             /\ Len(provision.errors) = 1
             /\ provision.errors[1].type = "EnvSetupFailed"
             /\ provision.errors[1].action_taken = "continue"

C12_Witness ==
    /\ provision.pc = "returned"
    /\ ~provision.conda_available
    /\ ~provision.facts.isfile_before
    /\ provision.facts.venv_code = 0
    /\ provision.facts.isfile_after
    /\ provision.facts.has_requirements_txt
    /\ provision.facts.pip_code # 0
    /\ provision.env = VenvEnv({})


\* C23 (as claimed): when conda is found by one of the lookups (by name, at a
\* well-known path, or through $CONDA_EXE / $CONDA_PREFIX) and its creation
\* command exits 0, env_node returns a conda environment; a venv is returned
\* only when conda is not found or the creation command fails.
C23_Claim ==
    provision.pc = "returned" =>
        LET f == provision.facts
            found == f.on_path \/ f.well_known \/ f.conda_exe_set
            creation_ok == (f.has_environment_yml /\ f.yml_code = 0) \/ f.base_code = 0
        IN  /\ (found /\ creation_ok) => provision.env.type = "conda"
            /\ provision.env.type = "venv" => (~found \/ ~creation_ok)

\* the commands of the later install steps
InstallCmds == {"pip install -e", "pip install -r", "pip install nested"}

Ran(cmd) == \E i \in DOMAIN provision.log : provision.log[i].cmd = cmd

BareCreated ==
    /\ provision.pc = "returned"
    /\ \/ \E i \in DOMAIN provision.log : provision.log[i] = Step("conda create", "none", 0)
       \/ Ran("pip install -U pip")

Rank(cmd) == CASE cmd = "pip install -e" -> 1
               [] cmd = "pip install -r" -> 2
               [] cmd = "pip install nested" -> 3

DeclaredFiles == {"environment_yml", "pyproject_toml", "requirements_txt"}

C21_ExecuteRoutesToReview ==
    [][(node = "run" /\ phase = "route" /\ status = "running" /\ workflow_status = "running")
        => /\ node' = "review"
           /\ IF run_result.success
              THEN errors' = errors
              ELSE /\ Len(errors') = Len(errors) + 1
                   /\ SubSeq(errors', 1, Len(errors)) = errors
                   /\ errors'[Len(errors')].severity = "high"
                   /\ errors'[Len(errors')].action_taken = "needs_regeneration"]_vars

C21_Witness ==
    /\ node = "review"
    /\ phase = "node"
    /\ run_result.present
    /\ ~run_result.success
    /\ Len(errors) = 2
    /\ errors[1].type = "PluginSmokeFailed"
    /\ errors[2].action_taken = "needs_regeneration"
    /\ errors[2].severity = "high"

\* C22: after a failed clone Download has appended a CloneFailed record with
\* action continue_with_empty and a warning, the workflow is still running
\* with an empty source directory, and the routing goes on to Analyze.
C22_CloneFailureContinues ==
    /\ [](  (node = "download" /\ phase = "route" /\ clone_outcome = "clone_failed")
            => /\ Len(errors) = 1
               /\ errors[1].type = "CloneFailed"
               /\ errors[1].action_taken = "continue_with_empty"
               /\ warnings = 1
               /\ workflow_status = "running"
               /\ source_dir = "empty")
    /\ [][(node = "download" /\ phase = "route" /\ clone_outcome = "clone_failed")
            => node' = "analysis"]_vars

C22_Witness ==
    /\ clone_outcome = "clone_failed"
    /\ nodes_executed = <<"download", "analysis">>
    /\ source_dir = "empty"
    /\ warnings >= 1
    /\ workflow_status = "running"


\* C30 (as claimed): everything Execute stores of the output of one execution
\* is at most the 1000-character tail plus a fixed prefix long, however much
\* the process printed.
C30_Claim ==
    stored.done =>
        \A len \in {stored.stdout, stored.stderr, stored.error, stored.plugin_stdout,
                    stored.plugin_stderr, stored.smoke_message, stored.route_message} :
            len <= TailLimit + MaxPrefix


\* C29 (as claimed): every command run for a conda environment starts with
\* the conda run prefix, and every command run for a venv environment starts
\* with the venv's interpreter; none is run as the host found it.
C29_Claim ==
    routed.done =>
        \A i \in DOMAIN routed.issued :
            /\ routed.env_type = "conda" => routed.issued[i][1] = "conda_exe"
            /\ routed.env_type = "venv" => routed.issued[i][1] = "venv_py"


\* the step in which run r issues its create command
CreateIssued(r) ==
    /\ registry.runs # << >>
    /\ registry.runs[r].pc = "cleaned"
    /\ registry'.runs[r].pc = "created"

C25_Claim ==
    [][registry.runs # << >> =>
        \A e \in registry.envs \ registry'.envs :
            e.owner = 0 \/ registry.runs[e.owner].pc = "ended"]_vars

\* C31 (as claimed): a failed execution is classified from stdout and stderr
\* taken together: ImportError when either holds "No module named" or
\* "ImportError", otherwise SyntaxError when either holds "SyntaxError",
\* otherwise RuntimeError.
C31_Claim ==
    \A x \in ExecutionIds :
        (executions[x].done /\ executions[x].code # 0) =>
            LET combined == executions[x].out \o executions[x].err
            IN  executions[x].error_type =
                    IF Contains("No module named", combined) \/ Contains("ImportError", combined)
                    THEN "ImportError"
                    ELSE IF Contains("SyntaxError", combined) THEN "SyntaxError"
                    ELSE "RuntimeError"

\* C35 (as claimed): when Review diagnoses a failed execution, error_analysis
\* becomes a diagnosis taken from the service's response or the empty
\* diagnosis, and workflow_status, status, fix_retry_count and
\* generation_retry_count keep their values.
C35_Claim ==
    [][(node = "review" /\ phase = "node" /\ phase' = "repair") =>
           /\ error_analysis' \in ServiceReplies
           /\ workflow_status' = workflow_status
           /\ status' = status
           /\ fix_retry_count' = fix_retry_count
           /\ generation_retry_count' = generation_retry_count]_vars

FinalizeExecuted == Terminated /\ \E i \in DOMAIN nodes_executed : nodes_executed[i] = "finalize"

\* C39: a run ends with workflow_status = success exactly when Finalize
\* executed and the last Execute before it exited 0, and run_workflow returns
\* success = true exactly for such a run.
C39_SuccessIffFinalizedAfterPass ==
    /\ Terminated => ((workflow_status = "success") <=> (FinalizeExecuted /\ tests_plugin = "passed"))
    /\ result.returned => (result.success <=> (FinalizeExecuted /\ tests_plugin = "passed"))

C39_Witness ==
    /\ result.returned
    /\ result.success
    /\ FinalizeExecuted
    /\ run_passes = 1
    /\ workflow_status = "success"

\* every attempt of the first call of the service raised
AllAttemptsRaised ==
    /\ Len(call.calls) >= 1
    /\ Len(call.calls[1].attempts) = retries + 1
    /\ \A i \in DOMAIN call.calls[1].attempts : call.calls[1].attempts[i].kind = "raised"

\* C36 (as claimed): when every attempt of a call of the service raised,
\* Generate writes its fallback template and the direct fix returns False
\* with the file as it was.
C36_Claim ==
    (call.pc = "done" /\ AllAttemptsRaised) =>
        /\ call.caller = "generate" => call.written = "fallback"
        /\ call.caller = "review" => (call.returned = FALSE /\ call.file = OldContent)

\* C32: for a .py file the direct fix writes only a body that ast.parse
\* accepted; a first body that does not parse is followed by one repair
\* request and no more; when the answer to it is empty, has no body or a body
\* that does not parse, the fix returns False and the file is as it was.
C32_ParsedOrNotWritten ==
    (call.caller = "review" /\ call.is_py) =>
        /\ call.file # OldContent => call.file.body \in {"fenced_ok", "plain_ok"}
        /\ Len(call.calls) + (IF call.pc = "request" THEN 1 ELSE 0) <= 2
        /\ (/\ call.pc \in {"write", "returned", "done"} \/ call.request = 2
            /\ call.calls[1].response.body \in {"fenced_bad", "plain_bad"}
            /\ call.calls[1].response.path \/ call.target_path) => call.request = 2
        /\ (/\ call.pc \in {"returned", "done"}
            /\ call.request = 2
            /\ call.calls[2].response.body \in {"none", "fenced_bad", "plain_bad"}) =>
                (call.returned = FALSE /\ call.file = OldContent)

C32_Witness ==
    /\ call.pc = "done"
    /\ call.is_py
    /\ call.calls[1].response.body = "plain_bad"
    /\ Len(call.calls) = 2
    /\ call.returned = TRUE
    /\ call.file = NewContent(2, "fenced_ok")

C37_Claim ==
    (checkout.run = 2 /\ checkout.killed /\ checkout.decision = "exists") =>
        checkout.source = Items

\* C34 (as claimed): _infer_error_file_path returns the path of the error
\* text when one resolves under repo_root; otherwise, when the error names a
\* failing import and a file of mcp_output mentions it, the first such file
\* in walk order; and None only when neither is the case.
C34_Claim ==
    inference.pc = "returned" =>
        LET resolving == {i \in 1..2 : inference.paths[i] \in {"abs_under_root_exists", "rel_exists"}}
            mentioning == IF inference.import_named /\ inference.mcp_isdir
                          THEN {i \in DOMAIN inference.files : inference.files[i]} ELSE {}
        IN  /\ (inference.py_token /\ resolving # {}) => inference.result.by = "text_path"
            /\ (~(inference.py_token /\ resolving # {}) /\ mentioning # {}) =>
                   inference.result = FoundFile("walk", CHOOSE i \in mentioning :
                                                            \A j \in mentioning : i <= j)
            /\ ~inference.result.found => (~(inference.py_token /\ resolving # {}) /\ mentioning = {})

====
